---- MODULE Spec2Model ----
(***************************************************************************)
(* Model of utils/data-validator/data-validator.py: the JSON field         *)
(* decoder, the Field / Event / PacketInfo equality methods and the        *)
(* two-cursor comparison loop _compare_json_data.                          *)
(*                                                                         *)
(* JSON values (what json.load returns) are records tagged by k:           *)
(*   [k |-> "null"]              None                                      *)
(*   [k |-> "bool", b |-> ..]    bool                                      *)
(*   [k |-> "int", n |-> ..]     int                                       *)
(*   [k |-> "float", h |-> ..]   float, h counts halves (3 is 1.5)         *)
(*   [k |-> "str", s |-> ..]     str, a sequence of one-character strings  *)
(*   [k |-> "list", l |-> ..]    list, a sequence of JSON values           *)
(*   [k |-> "obj", m |-> ..]     dict, a sequence of [key, val] items with *)
(*                               distinct keys, in insertion order         *)
(* Python objects built by the decoder are records tagged by t: "None",    *)
(* "Ignore", "Integer", "Float", "String", "Enum", "Array", "Struct",      *)
(* "Event", "PacketInfo".  A raised exception is the outcome "E" of an     *)
(* equality and err = TRUE of a decoding.                                  *)
(***************************************************************************)
EXTENDS Integers, Sequences, FiniteSets, TLC

VARIABLES json_expected, json_output, at_expected, at_output,
          cur_packet_info_expected, cur_packet_info_output,
          expected_event, output_event, pc, result, rounds,
          arg_kind, arg_a, arg_b, obj_a, obj_b, eq_ab, step

vars == <<json_expected, json_output, at_expected, at_output,
          cur_packet_info_expected, cur_packet_info_output,
          expected_event, output_event, pc, result, rounds,
          arg_kind, arg_a, arg_b, obj_a, obj_b, eq_ab, step>>

cmp_vars == <<json_expected, json_output, at_expected, at_output,
              cur_packet_info_expected, cur_packet_info_output,
              expected_event, output_event, pc, result, rounds>>

call_vars == <<arg_kind, arg_a, arg_b, obj_a, obj_b, eq_ab, step>>

\* ------------------------------------------------------------ JSON values

JNull == [k |-> "null"]
JBool(b) == [k |-> "bool", b |-> b]
JInt(n) == [k |-> "int", n |-> n]
JFloat(h) == [k |-> "float", h |-> h]
JStr(s) == [k |-> "str", s |-> s]
JList(l) == [k |-> "list", l |-> l]
JObj(m) == [k |-> "obj", m |-> m]
Item(key, val) == [key |-> key, val |-> val]

\* key in d
HasKey(d, key) == \E i \in 1..Len(d.m) : d.m[i].key = key

\* d[key], for a key that d has
Get(d, key) == d.m[CHOOSE i \in 1..Len(d.m) : d.m[i].key = key].val

\* ------------------------------------------------------- Python objects

None == [t |-> "None"]
IgnoreField == [t |-> "Ignore"]
IntegerField(value) == [t |-> "Integer", value |-> value]
FloatingPointNumberField(value) == [t |-> "Float", value |-> value]
StringField(value) == [t |-> "String", value |-> value]
EnumField(label) == [t |-> "Enum", label |-> label]
\* elements is what the constructor was handed: a list (iterable, its items
\* in elems) or a single Field object (not iterable, kept as the one item)
ArraySequenceField(iterable, elems) == [t |-> "Array", iterable |-> iterable, elements |-> elems]
StructField(fields) == [t |-> "Struct", fields |-> fields]
Event(header, stream_context, context, payload) ==
    [t |-> "Event", header |-> header, stream_context |-> stream_context,
     context |-> context, payload |-> payload]
PacketInfo(header, context) == [t |-> "PacketInfo", header |-> header, context |-> context]

\* a decoding that returned obj, and one that raised
Ok(obj) == [err |-> FALSE, obj |-> obj]
Raised == [err |-> TRUE, obj |-> None]

\* ------------------------------------------------------ Python == on values

IsNumber(v) == v.k \in {"int", "float", "bool"}

\* the number a JSON number stands for, in halves (bool is a subclass of int)
Halves(v) ==
    IF v.k = "int" THEN 2 * v.n
    ELSE IF v.k = "float" THEN v.h
    ELSE IF v.b THEN 2 ELSE 0

RECURSIVE PyEq(_, _)
\* a == b for two values json.load can return
PyEq(a, b) ==
    IF IsNumber(a) /\ IsNumber(b) THEN Halves(a) = Halves(b)
    ELSE IF a.k # b.k THEN FALSE
    ELSE IF a.k = "null" THEN TRUE
    ELSE IF a.k = "str" THEN a.s = b.s
    ELSE IF a.k = "list" THEN
        /\ Len(a.l) = Len(b.l)
        /\ \A i \in 1..Len(a.l) : PyEq(a.l[i], b.l[i])
    ELSE
        /\ Len(a.m) = Len(b.m)
        /\ \A i \in 1..Len(a.m) :
              /\ HasKey(b, a.m[i].key)
              /\ PyEq(a.m[i].val, Get(b, a.m[i].key))

\* ------------------------------------------------------------ int(s, 16)

HexDigits == <<"0", "1", "2", "3", "4", "5", "6", "7", "8", "9",
               "a", "b", "c", "d", "e", "f">>

IsHexDigit(c) == \E i \in 1..Len(HexDigits) : HexDigits[i] = c

HexValue(c) == (CHOOSE i \in 1..Len(HexDigits) : HexDigits[i] = c) - 1

RECURSIVE HexNumber(_)
HexNumber(s) ==
    IF Len(s) = 0 THEN 0
    ELSE 16 * HexNumber(SubSeq(s, 1, Len(s) - 1)) + HexValue(s[Len(s)])

\* int(s, 16) over strings of lower-case hex digits and other letters: a
\* ValueError for the empty string and for any character that is no digit
ParseHex(s) ==
    IF Len(s) = 0 \/ \E i \in 1..Len(s) : ~IsHexDigit(s[i])
    THEN [err |-> TRUE, n |-> 0]
    ELSE [err |-> FALSE, n |-> HexNumber(s)]

\* ------------------------------------------------------------ the decoder

\* the items a for loop over v visits: the items of a list, the characters of
\* a str, the keys of a dict (each key kept whole); err when v is not
\* iterable (a TypeError)
Iterate(v) ==
    IF v.k = "list" THEN [err |-> FALSE, items |-> v.l]
    ELSE IF v.k = "str" THEN
        [err |-> FALSE, items |-> [i \in 1..Len(v.s) |-> JStr(<<v.s[i]>>)]]
    ELSE IF v.k = "obj" THEN
        [err |-> FALSE, items |-> [i \in 1..Len(v.m) |-> JStr(<<v.m[i].key>>)]]
    ELSE [err |-> TRUE, items |-> <<>>]

_json_integer_to_object(value) == Ok(IntegerField(value))

_json_float_to_object(value) == Ok(FloatingPointNumberField(value))

_json_string_to_object(string) == Ok(StringField(string))

_json_null_field_to_object == Ok(IgnoreField)

_json_integer_field_to_object(field) ==
    IF ~HasKey(field, "value") THEN Raised
    ELSE LET json_value == Get(field, "value") IN
         IF json_value.k = "str"
         THEN IF ParseHex(json_value.s).err THEN Raised
              ELSE Ok(IntegerField(JInt(ParseHex(json_value.s).n)))
         ELSE Ok(IntegerField(json_value))

_json_float_field_to_object(field) ==
    IF ~HasKey(field, "value") THEN Raised
    ELSE Ok(FloatingPointNumberField(Get(field, "value")))

_json_string_field_to_object(field) ==
    IF ~HasKey(field, "value") THEN Raised
    ELSE Ok(StringField(Get(field, "value")))

_json_enum_field_to_object(field) ==
    IF ~HasKey(field, "label") THEN Raised
    ELSE Ok(EnumField(Get(field, "label")))

\* the ArraySequenceField built from the decoded items ds of a loop that
\* appends each one to element_objects
AppendedElements(ds) == ArraySequenceField(TRUE, [i \in 1..Len(ds) |-> ds[i].obj])

\* the ArraySequenceField built from the decoded items ds of a loop that
\* assigns each one to element_objects: the empty list when there is no
\* item, the last decoded Field otherwise
AssignedElements(ds) ==
    IF Len(ds) = 0 THEN ArraySequenceField(TRUE, <<>>)
    ELSE ArraySequenceField(FALSE, <<ds[Len(ds)].obj>>)

RECURSIVE _json_field_to_object(_)

_json_array_to_object(elements) ==
    LET ds == [i \in 1..Len(elements.l) |-> _json_field_to_object(elements.l[i])] IN
    IF \E i \in 1..Len(ds) : ds[i].err THEN Raised
    ELSE Ok(AppendedElements(ds))

_json_array_sequence_field_to_object(field) ==
    IF ~HasKey(field, "elements") THEN Raised
    ELSE LET it == Iterate(Get(field, "elements"))
             ds == [i \in 1..Len(it.items) |-> _json_field_to_object(it.items[i])] IN
         IF it.err \/ \E i \in 1..Len(ds) : ds[i].err THEN Raised
         ELSE Ok(AssignedElements(ds))

_json_struct_field_to_object(field) ==
    IF ~HasKey(field, "fields") THEN Raised
    ELSE LET fs == Get(field, "fields") IN
         IF fs.k # "obj" THEN Raised
         ELSE LET ds == [i \in 1..Len(fs.m) |-> _json_field_to_object(fs.m[i].val)] IN
              IF \E i \in 1..Len(ds) : ds[i].err THEN Raised
              ELSE Ok(StructField([i \in 1..Len(ds) |->
                                      Item(fs.m[i].key, ds[i].obj)]))

\* _json_field_to_object_cbs[json_field['type']](json_field): a KeyError
\* for a type that is no key of the table
_json_field_to_object_cbs(type, json_field) ==
    IF type.k # "str" THEN Raised
    ELSE IF type.s \in {<<"i","n","t","e","g","e","r">>, <<"i","n","t">>}
        THEN _json_integer_field_to_object(json_field)
    ELSE IF type.s \in {<<"f","l","o","a","t">>,
                        <<"f","l","o","a","t","i","n","g","_","p","o","i","n","t">>}
        THEN _json_float_field_to_object(json_field)
    ELSE IF type.s = <<"s","t","r","i","n","g">>
        THEN _json_string_field_to_object(json_field)
    ELSE IF type.s = <<"e","n","u","m">>
        THEN _json_enum_field_to_object(json_field)
    ELSE IF type.s \in {<<"a","r","r","a","y">>, <<"s","e","q","u","e","n","c","e">>}
        THEN _json_array_sequence_field_to_object(json_field)
    ELSE IF type.s = <<"s","t","r","u","c","t">>
        THEN _json_struct_field_to_object(json_field)
    ELSE Raised

\* _json_value_to_object_cbs[type(json_field)](json_field): a KeyError for
\* a bool
_json_value_to_object_cbs(json_field) ==
    IF json_field.k = "int" THEN _json_integer_to_object(json_field)
    ELSE IF json_field.k = "float" THEN _json_float_to_object(json_field)
    ELSE IF json_field.k = "str" THEN _json_string_to_object(json_field)
    ELSE IF json_field.k = "list" THEN _json_array_to_object(json_field)
    ELSE Raised

_json_field_to_object(json_field) ==
    IF json_field.k = "null" THEN _json_null_field_to_object
    ELSE IF json_field.k = "obj" THEN
        IF ~HasKey(json_field, "type") THEN Raised
        ELSE _json_field_to_object_cbs(Get(json_field, "type"), json_field)
    ELSE _json_value_to_object_cbs(json_field)

\* the decoding of json_event[key] when the key is there, None otherwise
OptionalKey(json_event, key) ==
    IF HasKey(json_event, key) THEN _json_field_to_object(Get(json_event, key))
    ELSE Ok(None)

\* the test that sends an entry to the packet info branch
IsPacketInfoEntry(json_event) == HasKey(json_event, "packet-header")

\* json_event is a dict.  In the packet info branch packet_context is
\* assigned only under its key: without it the return statement reads an
\* unbound local (UnboundLocalError).
_json_thing_to_object(json_event) ==
    IF IsPacketInfoEntry(json_event) THEN
        LET packet_header == _json_field_to_object(Get(json_event, "packet-header")) IN
        IF packet_header.err THEN Raised
        ELSE IF ~HasKey(json_event, "packet-context") THEN Raised
        ELSE LET packet_context ==
                     _json_field_to_object(Get(json_event, "packet-context")) IN
             IF packet_context.err THEN Raised
             ELSE Ok(PacketInfo(packet_header.obj, packet_context.obj))
    ELSE
        LET header == OptionalKey(json_event, "header")
            stream_context == OptionalKey(json_event, "stream-context")
            context == OptionalKey(json_event, "context")
            payload == OptionalKey(json_event, "payload") IN
        IF header.err \/ stream_context.err \/ context.err \/ payload.err THEN Raised
        ELSE Ok(Event(header.obj, stream_context.obj, context.obj, payload.obj))

\* ------------------------------------------------------------ equality
\* The outcome of a == b is "T" (True), "F" (False) or "E" (an exception:
\* the AttributeError of reading an attribute the other object lacks, the
\* TypeError of zip over an object that is not iterable).

\* not (a == b), which is what a != b evaluates when only __eq__ is defined
Not(o) == IF o = "T" THEN "F" ELSE IF o = "F" THEN "T" ELSE "E"

\* a Field.__eq__ without its first test, which goes straight to self._eq
IgnoreCheckNever(other) == FALSE

\* the test of Field.__eq__ that answers True before self._eq is called
IgnoreCheck(other) == other.t = "Ignore"

\* IgnoreField._eq
IgnoreField_eq(self, other) == "T"

\* SingleValueField._eq: other.value exists on the three single-value classes
SingleValueField_eq(self, other) ==
    IF other.t \notin {"Integer", "Float", "String"} THEN "E"
    ELSE IF PyEq(self.value, other.value) THEN "T" ELSE "F"

\* EnumField._eq
EnumField_eq(self, other) ==
    IF other.t # "Enum" THEN "E"
    ELSE IF PyEq(self.label, other.label) THEN "T" ELSE "F"

\* the outcome of a loop that returns False at the first "F" of outs, raises
\* at the first "E", and returns True after the last
FirstFailure(outs) ==
    IF \A i \in 1..Len(outs) : outs[i] = "T" THEN "T"
    ELSE outs[CHOOSE i \in 1..Len(outs) :
                 /\ outs[i] # "T"
                 /\ \A j \in 1..(i - 1) : outs[j] = "T"]

\* min(a, b)
Min(a, b) == IF a < b THEN a ELSE b

RECURSIVE Field__eq__(_, _)

\* ArraySequenceField._eq: zip stops at the shorter of the two lists
ArraySequenceField_eq(self, other) ==
    IF other.t # "Array" THEN "E"
    ELSE IF ~self.iterable \/ ~other.iterable THEN "E"
    ELSE FirstFailure([i \in 1..Min(Len(self.elements), Len(other.elements)) |->
                          Field__eq__(self.elements[i], other.elements[i])])

\* StructField._eq: the values are compared as o_value != s_value
StructField_eq(self, other) ==
    IF other.t # "Struct" THEN "E"
    ELSE IF Len(self.fields) # Len(other.fields) THEN "F"
    ELSE FirstFailure([i \in 1..Len(self.fields) |->
            IF \A j \in 1..Len(other.fields) : other.fields[j].key # self.fields[i].key
            THEN "F"
            ELSE LET o_value == other.fields[CHOOSE j \in 1..Len(other.fields) :
                                    other.fields[j].key = self.fields[i].key].val
                 IN Field__eq__(o_value, self.fields[i].val)])

\* Field.__eq__ of a Field self; other is a Field or None
Field__eq__(self, other) ==
    IF IgnoreCheck(other) THEN "T"
    ELSE IF self.t = "Ignore" THEN IgnoreField_eq(self, other)
    ELSE IF self.t \in {"Integer", "Float", "String"} THEN SingleValueField_eq(self, other)
    ELSE IF self.t = "Enum" THEN EnumField_eq(self, other)
    ELSE IF self.t = "Array" THEN ArraySequenceField_eq(self, other)
    ELSE StructField_eq(self, other)

\* a == b where each is a Field or None: None == None is True, and None == b
\* falls back to the reflected b.__eq__(None)
OptEq(a, b) ==
    IF a.t = "None" /\ b.t = "None" THEN "T"
    ELSE IF a.t = "None" THEN Field__eq__(b, a)
    ELSE Field__eq__(a, b)

\* Event.__eq__: the four comparisons are all evaluated, then summed
Event__eq__(self, other) ==
    LET h_eq == OptEq(self.header, other.header)
        sc_eq == OptEq(self.stream_context, other.stream_context)
        c_eq == OptEq(self.context, other.context)
        p_eq == OptEq(self.payload, other.payload) IN
    IF "E" \in {h_eq, sc_eq, c_eq, p_eq} THEN "E"
    ELSE IF {h_eq, sc_eq, c_eq, p_eq} = {"T"} THEN "T" ELSE "F"

\* PacketInfo.__eq__ of a PacketInfo self; other is a PacketInfo or None
\* (other.header is then an AttributeError)
PacketInfo__eq__(self, other) ==
    IF other.t = "None" THEN "E"
    ELSE LET h == OptEq(self.header, other.header) IN
         IF h # "T" THEN h ELSE OptEq(self.context, other.context)

\* a == b where each is a PacketInfo or None
OptPacketInfoEq(a, b) ==
    IF a.t = "None" /\ b.t = "None" THEN "T"
    ELSE IF a.t = "None" THEN PacketInfo__eq__(b, a)
    ELSE PacketInfo__eq__(a, b)

\* ------------------------------------------------- _compare_json_data
\* pc is the place in the function: "round" (top of the while True loop),
\* "find_expected" and "find_output" (the two inner loops), "decide" (the
\* if chain after them), "done" (returned or raised).  result is "true",
\* "false" or "error" once done.  rounds counts the rounds begun.

\* an inner loop that leaves its cursor where it is
AdvanceStay(at) == at

\* at_expected += 1, at_output += 1
Advance(at) == at + 1

\* a current packet info that is set once and never replaced
KeepFirstPacketInfo(cur, thing) ==
    IF thing.t = "PacketInfo" /\ cur.t = "None" THEN thing ELSE cur

\* the current packet info after the decoded thing: the thing when it is a
\* PacketInfo
UpdatePacketInfo(cur, thing) == IF thing.t = "PacketInfo" THEN thing ELSE cur

\* an inner loop that catches the exception of an entry and goes on as after
\* an empty PacketInfo
SwallowDecodeError(decoded) == IF decoded.err THEN Ok(PacketInfo(None, None)) ELSE decoded

\* how an exception raised by _json_thing_to_object leaves the inner loop:
\* nothing catches it, it propagates out of _compare_json_data
PropagateDecodeError(decoded) == decoded

\* one iteration of an inner loop over json at cursor at (at < len(json))
FetchStep(json, at, cur) ==
    LET decoded == PropagateDecodeError(_json_thing_to_object(json[at + 1])) IN
    IF decoded.err THEN [err |-> TRUE, at |-> at, cur |-> cur, event |-> None]
    ELSE [err |-> FALSE, at |-> Advance(at),
          cur |-> UpdatePacketInfo(cur, decoded.obj),
          event |-> IF decoded.obj.t = "PacketInfo" THEN None ELSE decoded.obj]

\* an if chain that passes as soon as either side has no event left
VerdictLenient(ev_expected, ev_output, info_expected, info_output) ==
    IF ev_expected.t = "None" \/ ev_output.t = "None" THEN "true"
    ELSE IF Not(OptPacketInfoEq(info_expected, info_output)) = "E" THEN "error"
    ELSE IF Not(OptPacketInfoEq(info_expected, info_output)) = "T" THEN "false"
    ELSE IF Not(Event__eq__(ev_expected, ev_output)) = "E" THEN "error"
    ELSE IF Not(Event__eq__(ev_expected, ev_output)) = "T" THEN "false"
    ELSE "continue"

\* the if chain that ends a round: "false" and "true" are returned,
\* "error" is an exception of a comparison, "continue" is the next round
Verdict(ev_expected, ev_output, info_expected, info_output) ==
    IF ev_expected.t = "None" /\ ev_output.t # "None" THEN "false"
    ELSE IF ev_expected.t # "None" /\ ev_output.t = "None" THEN "false"
    ELSE IF ev_expected.t = "None" /\ ev_output.t = "None" THEN "true"
    ELSE IF Not(OptPacketInfoEq(info_expected, info_output)) = "E" THEN "error"
    ELSE IF Not(OptPacketInfoEq(info_expected, info_output)) = "T" THEN "false"
    ELSE IF Not(Event__eq__(ev_expected, ev_output)) = "E" THEN "error"
    ELSE IF Not(Event__eq__(ev_expected, ev_output)) = "T" THEN "false"
    ELSE "continue"

BeginRound ==
    /\ pc = "round"
    /\ expected_event' = None
    /\ output_event' = None
    /\ rounds' = rounds + 1
    /\ pc' = "find_expected"
    /\ UNCHANGED <<json_expected, json_output, at_expected, at_output,
                   cur_packet_info_expected, cur_packet_info_output, result>>

ExpectedStep ==
    /\ pc = "find_expected"
    /\ at_expected < Len(json_expected)
    /\ \E r \in {FetchStep(json_expected, at_expected, cur_packet_info_expected)} :
        /\ at_expected' = r.at
        /\ cur_packet_info_expected' = r.cur
        /\ expected_event' = r.event
        /\ pc' = IF r.err THEN "done"
                 ELSE IF r.event.t = "None" THEN "find_expected" ELSE "find_output"
        /\ result' = IF r.err THEN "error" ELSE result
    /\ UNCHANGED <<json_expected, json_output, at_output, cur_packet_info_output,
                   output_event, rounds>>

ExpectedEnd ==
    /\ pc = "find_expected"
    /\ at_expected >= Len(json_expected)
    /\ pc' = "find_output"
    /\ UNCHANGED <<json_expected, json_output, at_expected, at_output,
                   cur_packet_info_expected, cur_packet_info_output,
                   expected_event, output_event, result, rounds>>

OutputStep ==
    /\ pc = "find_output"
    /\ at_output < Len(json_output)
    /\ \E r \in {FetchStep(json_output, at_output, cur_packet_info_output)} :
        /\ at_output' = r.at
        /\ cur_packet_info_output' = r.cur
        /\ output_event' = r.event
        /\ pc' = IF r.err THEN "done"
                 ELSE IF r.event.t = "None" THEN "find_output" ELSE "decide"
        /\ result' = IF r.err THEN "error" ELSE result
    /\ UNCHANGED <<json_expected, json_output, at_expected, cur_packet_info_expected,
                   expected_event, rounds>>

OutputEnd ==
    /\ pc = "find_output"
    /\ at_output >= Len(json_output)
    /\ pc' = "decide"
    /\ UNCHANGED <<json_expected, json_output, at_expected, at_output,
                   cur_packet_info_expected, cur_packet_info_output,
                   expected_event, output_event, result, rounds>>

Decide ==
    /\ pc = "decide"
    /\ LET v == Verdict(expected_event, output_event,
                        cur_packet_info_expected, cur_packet_info_output) IN
        /\ pc' = IF v = "continue" THEN "round" ELSE "done"
        /\ result' = IF v = "continue" THEN result ELSE v
    /\ UNCHANGED <<json_expected, json_output, at_expected, at_output,
                   cur_packet_info_expected, cur_packet_info_output,
                   expected_event, output_event, rounds>>

\* ------------------------------------------------------------ the inputs

\* longest expected list and longest output list
MaxExpected == 3
MaxOutput == 2
\* longest "elements" list of an array
MaxElems == 2

T_integer == JStr(<<"i","n","t","e","g","e","r">>)
T_float == JStr(<<"f","l","o","a","t">>)
T_string == JStr(<<"s","t","r","i","n","g">>)
T_enum == JStr(<<"e","n","u","m">>)
T_array == JStr(<<"a","r","r","a","y">>)
T_sequence == JStr(<<"s","e","q","u","e","n","c","e">>)
T_struct == JStr(<<"s","t","r","u","c","t">>)
T_bogus == JStr(<<"b","o","g","u","s">>)

\* {"type": type, key: val}
Typed(type, key, val) == JObj(<<Item("type", type), Item(key, val)>>)

\* {"header": 1}
E_one == JObj(<<Item("header", JInt(1))>>)
\* {"header": {"type": "integer", "value": "2"}}
E_two == JObj(<<Item("header", JObj(<<Item("type", T_integer),
                                      Item("value", JStr(<<"2">>))>>))>>)
\* {"header": null}
E_ignore == JObj(<<Item("header", JNull)>>)
\* {}
E_empty == JObj(<<>>)
\* {"header": true}
E_bool == JObj(<<Item("header", JBool(TRUE))>>)
\* {"packet-header": 1, "packet-context": 1}
P_one == JObj(<<Item("packet-header", JInt(1)), Item("packet-context", JInt(1))>>)
\* {"packet-header": 2, "packet-context": 1}
P_two == JObj(<<Item("packet-header", JInt(2)), Item("packet-context", JInt(1))>>)

\* {"header": {"type": "integer", "value": "zz"}}
E_badhex == JObj(<<Item("header", Typed(T_integer, "value", JStr(<<"z","z">>)))>>)
\* {"payload": {"type": "bogus"}}
E_bogus == JObj(<<Item("payload", JObj(<<Item("type", T_bogus)>>))>>)
\* {"packet-context": 1}
P_context_only == JObj(<<Item("packet-context", JInt(1))>>)
\* {"packet-header": 1}
P_header_only == JObj(<<Item("packet-header", JInt(1))>>)
\* {"header": 1, "stream-context": null, "context": 1.5, "payload": [1]}
E_full == JObj(<<Item("header", JInt(1)), Item("stream-context", JNull),
                 Item("context", JFloat(3)), Item("payload", JList(<<JInt(1)>>))>>)

\* the entries the lists of the comparison are made of
Entries == <<E_one, E_two, P_one, P_two>>

\* the entries of the comparisons that meet absent fields and entries that
\* do not decode
DecodeEntries == <<E_one, E_ignore, E_empty, P_one, E_bool, E_badhex, E_bogus>>
DecodeOutputEntries == <<E_empty, E_bool>>

\* the lists of at most n entries of the catalogue cat
ListsOf(cat, n) ==
    UNION {{[i \in 1..m |-> cat[f[i]]] : f \in [1..m -> 1..Len(cat)]} : m \in 0..n}

\* the variables of the other machine, which stay as they are
CallIdle ==
    /\ arg_kind = "none"
    /\ arg_a = JNull
    /\ arg_b = JNull
    /\ obj_a = Raised
    /\ obj_b = Raised
    /\ eq_ab = "-"
    /\ step = "idle"

InitOver(cat_expected, cat_output) ==
    /\ json_expected \in ListsOf(cat_expected, MaxExpected)
    /\ json_output \in ListsOf(cat_output, MaxOutput)
    /\ at_expected = 0
    /\ at_output = 0
    /\ cur_packet_info_expected = None
    /\ cur_packet_info_output = None
    /\ expected_event = None
    /\ output_event = None
    /\ pc = "round"
    /\ result = "running"
    /\ rounds = 0
    /\ CallIdle

Init == InitOver(Entries, Entries)

Next ==
    \/ (BeginRound /\ UNCHANGED call_vars)
    \/ (ExpectedStep /\ UNCHANGED call_vars)
    \/ (ExpectedEnd /\ UNCHANGED call_vars)
    \/ (OutputStep /\ UNCHANGED call_vars)
    \/ (OutputEnd /\ UNCHANGED call_vars)
    \/ (Decide /\ UNCHANGED call_vars)

\* _compare_json_data over lists of well-formed entries
Spec == Init /\ [][Next]_vars

InitDecode == InitOver(DecodeEntries, DecodeOutputEntries)

\* _compare_json_data over lists with absent fields and malformed entries
SpecDecode == InitDecode /\ [][Next]_vars

\* ------------------------------------------- the decoder and == on their own
\* A call decodes two JSON values (step "args" to "decoded") and compares
\* the two objects with == (to "compared") when both were decoded and are of
\* one kind (two Fields, two Events, two PacketInfos).

\* the field values arrays and structs are made of
Elems == <<JInt(1), JInt(2), JNull>>

ScalarFields ==
    {JNull, JBool(TRUE), JInt(1), JFloat(2), JFloat(3), JStr(<<"a">>), JStr(<<"1">>),
     Typed(T_integer, "value", JInt(1)),
     Typed(T_integer, "value", JStr(<<"f","f">>)),
     Typed(T_integer, "value", JStr(<<"z","z">>)),
     Typed(T_float, "value", JFloat(2)),
     Typed(T_string, "value", JStr(<<"a">>)),
     Typed(T_enum, "label", JStr(<<"a">>)),
     Typed(T_enum, "label", JStr(<<"b">>)),
     JObj(<<Item("type", T_bogus)>>)}

ListFields == {JList(l) : l \in ListsOf(Elems, MaxElems)}

ArrayFields ==
    {Typed(T_array, "elements", JList(l)) : l \in ListsOf(Elems, MaxElems)}
    \cup {Typed(T_sequence, "elements", JList(<<JInt(1), JInt(2)>>))}

\* {"type": "struct", "fields": {...}}
Struct(items) == Typed(T_struct, "fields", JObj(items))

StructFields ==
    {Struct(<<>>), Struct(<<Item("a", JInt(1))>>),
     Struct(<<Item("a", JInt(1)), Item("b", JInt(2))>>),
     Struct(<<Item("b", JInt(2)), Item("a", JInt(1))>>),
     Struct(<<Item("a", JNull), Item("b", JInt(2))>>)}

NestedFields ==
    {JList(<<JList(<<JInt(1)>>), JNull>>),
     JList(<<Typed(T_array, "elements", JList(<<JInt(1), JInt(2)>>))>>),
     Typed(T_array, "elements", JList(<<JList(<<JInt(1), JInt(2)>>)>>)),
     Struct(<<Item("a", JList(<<JInt(1), JNull>>))>>),
     JList(<<JBool(TRUE)>>)}

FieldArgs == ScalarFields \cup ListFields \cup ArrayFields \cup StructFields \cup NestedFields

ThingArgs == {E_one, E_two, E_ignore, E_empty, E_bool, E_full, P_one, P_two,
              P_context_only, P_header_only,
              JObj(<<Item("packet-header", JInt(1)), Item("packet-context", JNull)>>),
              JObj(<<Item("packet-context", JInt(1)), Item("payload", JInt(1))>>)}

\* the variables of _compare_json_data, which is not running
CompareIdle ==
    /\ json_expected = <<>>
    /\ json_output = <<>>
    /\ at_expected = 0
    /\ at_output = 0
    /\ cur_packet_info_expected = None
    /\ cur_packet_info_output = None
    /\ expected_event = None
    /\ output_event = None
    /\ pc = "idle"
    /\ result = "running"
    /\ rounds = 0

InitCall ==
    /\ arg_kind \in {"field", "thing"}
    /\ arg_a \in (IF arg_kind = "field" THEN FieldArgs ELSE ThingArgs)
    /\ arg_b \in (IF arg_kind = "field" THEN FieldArgs ELSE ThingArgs)
    /\ obj_a = Raised
    /\ obj_b = Raised
    /\ eq_ab = "-"
    /\ step = "args"
    /\ CompareIdle

DecodeFields ==
    /\ step = "args"
    /\ arg_kind = "field"
    /\ obj_a' = _json_field_to_object(arg_a)
    /\ obj_b' = _json_field_to_object(arg_b)
    /\ step' = "decoded"
    /\ UNCHANGED <<arg_kind, arg_a, arg_b, eq_ab>>

DecodeThings ==
    /\ step = "args"
    /\ arg_kind = "thing"
    /\ obj_a' = _json_thing_to_object(arg_a)
    /\ obj_b' = _json_thing_to_object(arg_b)
    /\ step' = "decoded"
    /\ UNCHANGED <<arg_kind, arg_a, arg_b, eq_ab>>

CompareFields ==
    /\ step = "decoded"
    /\ arg_kind = "field"
    /\ ~obj_a.err
    /\ ~obj_b.err
    /\ eq_ab' = Field__eq__(obj_a.obj, obj_b.obj)
    /\ step' = "compared"
    /\ UNCHANGED <<arg_kind, arg_a, arg_b, obj_a, obj_b>>

CompareEvents ==
    /\ step = "decoded"
    /\ arg_kind = "thing"
    /\ ~obj_a.err
    /\ ~obj_b.err
    /\ obj_a.obj.t = "Event"
    /\ obj_b.obj.t = "Event"
    /\ eq_ab' = Event__eq__(obj_a.obj, obj_b.obj)
    /\ step' = "compared"
    /\ UNCHANGED <<arg_kind, arg_a, arg_b, obj_a, obj_b>>

ComparePacketInfos ==
    /\ step = "decoded"
    /\ arg_kind = "thing"
    /\ ~obj_a.err
    /\ ~obj_b.err
    /\ obj_a.obj.t = "PacketInfo"
    /\ obj_b.obj.t = "PacketInfo"
    /\ eq_ab' = PacketInfo__eq__(obj_a.obj, obj_b.obj)
    /\ step' = "compared"
    /\ UNCHANGED <<arg_kind, arg_a, arg_b, obj_a, obj_b>>

NextCall ==
    \/ (DecodeFields /\ UNCHANGED cmp_vars)
    \/ (DecodeThings /\ UNCHANGED cmp_vars)
    \/ (CompareFields /\ UNCHANGED cmp_vars)
    \/ (CompareEvents /\ UNCHANGED cmp_vars)
    \/ (ComparePacketInfos /\ UNCHANGED cmp_vars)

\* the decoder and the equality methods over pairs of JSON values
SpecCall == InitCall /\ [][NextCall]_vars

\* ============================================================ the claims

\* what each entry of a list decodes to, entry by entry
Things(json) == [i \in 1..Len(json) |-> _json_thing_to_object(json[i])]

AllDecode(json) == \A i \in 1..Len(json) : ~Things(json)[i].err

IsEventAt(json, i) == ~Things(json)[i].err /\ Things(json)[i].obj.t = "Event"

IsInfoAt(json, i) == ~Things(json)[i].err /\ Things(json)[i].obj.t = "PacketInfo"

\* the indexes of the Event records of a list, in order
EventIndexes(json) ==
    SelectSeq([i \in 1..Len(json) |-> i], LAMBDA i : IsEventAt(json, i))

\* the last PacketInfo record before index i, None when there is none
InfoBefore(json, i) ==
    LET before == {j \in 1..(i - 1) : IsInfoAt(json, j)} IN
    IF before = {} THEN None
    ELSE Things(json)[CHOOSE j \in before : \A l \in before : l <= j].obj

\* a side has no Event record left: its cursor is at the end and the fetch
\* of the round gave none
Exhausted(json, at, ev) == ev.t = "None" /\ at = Len(json)

\* a side's fetch stopped at the Event record under its cursor
Yielded(json, at, ev) ==
    /\ ev.t = "Event"
    /\ at >= 1
    /\ IsEventAt(json, at)
    /\ ev = Things(json)[at].obj

\* C1: at the end of a round's two fetches each side has either yielded the
\* Event under its cursor or is exhausted; when the function has returned,
\* both sides exhausted gives true, exactly one side exhausted gives false,
\* and true is returned in no other case.
C1_Exhaustion ==
    LET ex_e == Exhausted(json_expected, at_expected, expected_event)
        ex_o == Exhausted(json_output, at_output, output_event)
        y_e == Yielded(json_expected, at_expected, expected_event)
        y_o == Yielded(json_output, at_output, output_event) IN
    /\ pc = "decide" => (ex_e \/ y_e) /\ (ex_o \/ y_o)
    /\ pc = "done" =>
        /\ (ex_e /\ ex_o) => result = "true"
        /\ (ex_e /\ y_o) \/ (y_e /\ ex_o) => result = "false"
        /\ result = "true" => ex_e /\ ex_o

\* the output ran out of events after one matched pair, with packet infos
\* seen on both sides
C1_Witness ==
    /\ pc = "done"
    /\ result = "false"
    /\ rounds = 2
    /\ Yielded(json_expected, at_expected, expected_event)
    /\ Exhausted(json_output, at_output, output_event)
    /\ cur_packet_info_expected.t = "PacketInfo"
    /\ cur_packet_info_output.t = "PacketInfo"

\* the two lists have as many Event records, the k-th ones are equal, and so
\* are the packet infos current at each of them
SameByCurrentValue(expected, output) ==
    LET ie == EventIndexes(expected)
        io == EventIndexes(output) IN
    /\ AllDecode(expected)
    /\ AllDecode(output)
    /\ Len(ie) = Len(io)
    /\ \A k \in 1..Len(ie) :
        /\ Event__eq__(Things(expected)[ie[k]].obj, Things(output)[io[k]].obj) = "T"
        /\ OptPacketInfoEq(InfoBefore(expected, ie[k]), InfoBefore(output, io[k])) = "T"

\* C2: two lists whose k-th events are equal and whose current packet infos
\* are equal at each k-th event compare true, wherever their PacketInfo
\* records sit and however many there are.
C2_CurrentValue ==
    (pc = "done" /\ SameByCurrentValue(json_expected, json_output)) => result = "true"

\* true for an expected list whose first packet info is overwritten before
\* its event, against an output list with one packet info fewer
C2_Witness ==
    /\ pc = "done"
    /\ result = "true"
    /\ Len(json_expected) = 3
    /\ Len(json_output) = 2
    /\ IsInfoAt(json_expected, 1)
    /\ IsInfoAt(json_expected, 2)
    /\ IsEventAt(json_expected, 3)
    /\ IsEventAt(json_output, 2)
    /\ Things(json_expected)[1].obj # Things(json_expected)[2].obj

\* the packet infos of the two sides are unequal: one is absent and the
\* other is not, or both are there and compare unequal
InfosUnequal(a, b) ==
    \/ (a.t = "None") # (b.t = "None")
    \/ (a.t = "PacketInfo" /\ b.t = "PacketInfo" /\ PacketInfo__eq__(a, b) = "F")

\* the last round fetched an event on both sides
PairReached == expected_event.t = "Event" /\ output_event.t = "Event"

\* C3: when an event pair is reached with unequal current packet infos, the
\* function returns false.
C3_UnequalInfosFalse ==
    (pc = "done" /\ PairReached
        /\ InfosUnequal(cur_packet_info_expected, cur_packet_info_output))
    => result = "false"

\* C4: Ignore == f and f == Ignore are True for every Field f.
C4_Wildcard ==
    (step = "compared" /\ arg_kind = "field"
        /\ (obj_a.obj.t = "Ignore" \/ obj_b.obj.t = "Ignore"))
    => eq_ab = "T"

\* an array whose elements cannot be iterated, compared with Ignore
C4_Witness ==
    /\ step = "compared"
    /\ arg_kind = "field"
    /\ obj_a.obj.t = "Array"
    /\ ~obj_a.obj.iterable
    /\ obj_b.obj.t = "Ignore"
    /\ eq_ab = "T"

\* a sub-field absent from one of two events and present in the other
AbsentOnOneSide(a, b) ==
    \/ (a.header.t = "None") # (b.header.t = "None")
    \/ (a.stream_context.t = "None") # (b.stream_context.t = "None")
    \/ (a.context.t = "None") # (b.context.t = "None")
    \/ (a.payload.t = "None") # (b.payload.t = "None")

\* the events of the last round were compared: both were fetched and the
\* current packet infos compared equal
EventsCompared ==
    /\ pc \in {"round", "done"}
    /\ PairReached
    /\ OptPacketInfoEq(cur_packet_info_expected, cur_packet_info_output) = "T"

\* C5: two compared events of which one lacks a sub-field the other has
\* (an Ignore field included) make the function return false.
C5_AbsenceNotWildcard ==
    (EventsCompared /\ AbsentOnOneSide(expected_event, output_event))
    => (pc = "done" /\ result = "false")

\* an entry with a "packet-header" or a "packet-context" key
HasPacketKey(entry) == HasKey(entry, "packet-header") \/ HasKey(entry, "packet-context")

\* C6: an entry with either packet key decodes to the PacketInfo of the
\* decoded keys it has, None for the one it lacks; only an entry with
\* neither key becomes an Event.
C6_Classification ==
    (step = "decoded" /\ arg_kind = "thing") =>
        IF HasPacketKey(arg_a)
        THEN LET h == OptionalKey(arg_a, "packet-header")
                 c == OptionalKey(arg_a, "packet-context") IN
             (~h.err /\ ~c.err) => obj_a = Ok(PacketInfo(h.obj, c.obj))
        ELSE obj_a.err \/ obj_a.obj.t = "Event"

\* a field object of type "array" or "sequence" whose "elements" is a list
IsArrayObject(v) ==
    /\ v.k = "obj"
    /\ HasKey(v, "type")
    /\ Get(v, "type") \in {T_array, T_sequence}
    /\ HasKey(v, "elements")
    /\ Get(v, "elements").k = "list"

\* C7: a field object of type "array" or "sequence" decodes to the Array of
\* its decoded elements, as the bare list of those elements does.
C7_ArrayElements ==
    (step = "decoded" /\ arg_kind = "field" /\ IsArrayObject(arg_a))
    => obj_a = _json_array_to_object(Get(arg_a, "elements"))

\* C8: two Fields of different variants, neither of them Ignore, compare
\* False.
C8_VariantsUnequal ==
    (step = "compared" /\ arg_kind = "field"
        /\ obj_a.obj.t # obj_b.obj.t
        /\ obj_a.obj.t # "Ignore" /\ obj_b.obj.t # "Ignore")
    => eq_ab = "F"

\* C9: when an entry of either list does not decode, the function does not
\* return true.
C9_DecodeFailure ==
    (pc = "done" /\ ~(AllDecode(json_expected) /\ AllDecode(json_output)))
    => result \in {"false", "error"}

\* the last of three expected entries does not decode; the run reaches it in
\* its second round and raises
C9_Witness ==
    /\ pc = "done"
    /\ result = "error"
    /\ rounds = 2
    /\ Len(json_expected) = 3
    /\ at_expected = 2
    /\ Things(json_expected)[3].err
    /\ AllDecode(SubSeq(json_expected, 1, 2))
    /\ AllDecode(json_output)

\* what is left of the two lists
Remaining == (Len(json_expected) - at_expected) + (Len(json_output) - at_output)

\* the place in the round, counted down to the return
Place ==
    IF pc = "done" THEN 0
    ELSE IF pc = "decide" THEN (IF PairReached THEN 6 ELSE 1)
    ELSE IF pc = "find_output" THEN (IF expected_event.t = "Event" THEN 8 ELSE 3)
    ELSE IF pc = "find_expected" THEN 4
    ELSE 5

\* a measure every step of the function lowers
Variant == 10 * Remaining + Place

\* the function returned from the if chain of a round: true with both sides
\* exhausted, false with exactly one side exhausted or with a pair whose
\* packet infos or events compare unequal
ReturnedByExhaustionOrMismatch ==
    LET ex_e == Exhausted(json_expected, at_expected, expected_event)
        ex_o == Exhausted(json_output, at_output, output_event) IN
    /\ result = "true" => ex_e /\ ex_o
    /\ result = "false" =>
        \/ ex_e /\ ~ex_o /\ output_event.t = "Event"
        \/ ex_o /\ ~ex_e /\ expected_event.t = "Event"
        \/ /\ PairReached
           /\ \/ OptPacketInfoEq(cur_packet_info_expected, cur_packet_info_output) = "F"
              \/ Event__eq__(expected_event, output_event) = "F"

\* C10: the cursors stay within their lists and never move back, a round is
\* begun only after the rounds before it moved a cursor (so there are at
\* most len(expected) + len(output) + 1 rounds), the function always has a
\* next step until it is done, each step lowering a measure that is never
\* negative, and it returns only by an exhaustion case or a mismatch.
C10_Terminates ==
    /\ [](/\ at_expected \in 0..Len(json_expected)
          /\ at_output \in 0..Len(json_output)
          /\ rounds <= at_expected + at_output + 1
          /\ rounds <= Len(json_expected) + Len(json_output) + 1
          /\ Variant >= 0
          /\ (pc # "done" => ENABLED Next)
          /\ (pc = "done" => ReturnedByExhaustionOrMismatch))
    /\ [][/\ at_expected' >= at_expected
          /\ at_output' >= at_output
          /\ Variant' < Variant]_vars

\* a run of three rounds that reads both lists to their ends
C10_Witness ==
    /\ pc = "done"
    /\ rounds = 3
    /\ at_expected = 3
    /\ at_output = 2

====
